---- MODULE Spec2Model ----
(***************************************************************************)
(* Model of src/main.py: the watchlist resolution pipeline.                *)
(*                                                                         *)
(* One Letterboxd instance is accessed by a client that reads the          *)
(* properties `watchlist` and `summary`.  The HTTP servers (the listing    *)
(* site and the metadata provider) are the environment: every response is  *)
(* chosen nondeterministically from a small set at the moment the request  *)
(* is issued.  An exception that the code does not catch propagates to the *)
(* client, which may access the instance again afterwards.                 *)
(*                                                                         *)
(* The listing pages are taken to be well formed (a heading whose count    *)
(* parses, an img with alt text in every poster container) and the         *)
(* transport to deliver a response to every request.  BeautifulSoup, given *)
(* None as markup, raises TypeError.                                       *)
(***************************************************************************)
EXTENDS Integers, Sequences, FiniteSets, TLC

\* ---------------------------------------------------------------- bounds
MaxAccess == 2      \* property accesses made by the client
MaxPosters == 2     \* poster containers on one listing page
MaxMovies == 3      \* poster containers scanned during one computation
MaxResults == 1     \* entries of a search result list
MaxCount == 57      \* entry counts of the heading (page-count specification)

\* ------------------------------------------------------ program constants
OK == 200           \* HTTPStatus.OK
PosterRows == 7     \* 7 * 4 posters on a listing page
PosterCols == 4
SeparatorWidth == 50

\* ----------------------------------------------------------------- inputs
Titles == {"Alien", "Brazil"}
MovieIds == {11}
Statuses == {OK, 404}
EntryCounts == {0, 28}

SeqsUpTo(S, n) == UNION {[1..k -> S] : k \in 0..n}

Min(a, b) == IF a < b THEN a ELSE b

\* A listing page response: the status, the count of the heading
\* "<user> WANTS TO SEE <count> FILMS" and the img alt texts of the
\* li.poster-container elements, in document order.
PageResponse(status, count, posters) ==
    [status |-> status, count |-> count, posters |-> posters]

PageResponses(counts, room) ==
    {PageResponse(OK, c, p) : c \in counts, p \in SeqsUpTo(Titles, Min(MaxPosters, room))}
        \cup {PageResponse(s, 0, <<>>) : s \in Statuses \ {OK}}

\* A search response: the status and the JSON body, of which the code reads
\* body["results"][0]["id"].
ResultEntries ==
    {[hasId |-> FALSE, id |-> 0]} \cup {[hasId |-> TRUE, id |-> i] : i \in MovieIds}

SearchResponses ==
    {[status |-> s, hasResults |-> FALSE, results |-> <<>>] : s \in Statuses}
        \cup {[status |-> OK, hasResults |-> TRUE, results |-> r] :
                r \in SeqsUpTo(ResultEntries, MaxResults)}

\* An availability response: the status and the JSON body, of which the code
\* reads body["results"][country]["flatrate"][i]["provider_name"].
ProviderEntry(p) == [provider_name |-> p]

FlatrateLists ==
    {<<>>,
     <<ProviderEntry("Netflix")>>,
     <<ProviderEntry("Netflix"), ProviderEntry("HBO")>>,
     <<ProviderEntry("Netflix"), ProviderEntry("Netflix")>>}

AvailResponse(status, hasResults, hasCountry, hasFlatrate, flatrate) ==
    [status |-> status, hasResults |-> hasResults, hasCountry |-> hasCountry,
     hasFlatrate |-> hasFlatrate, flatrate |-> flatrate]

AvailResponses ==
    {AvailResponse(s, FALSE, FALSE, FALSE, <<>>) : s \in Statuses}
        \cup {AvailResponse(OK, TRUE, FALSE, FALSE, <<>>),
              AvailResponse(OK, TRUE, TRUE, FALSE, <<>>)}
        \cup {AvailResponse(OK, TRUE, TRUE, TRUE, f) : f \in FlatrateLists}

\* No availability request was issued.
NoRequest == AvailResponse(0, FALSE, FALSE, FALSE, <<>>)

\* What the provider offers for the country in the responses to one title's
\* lookup: the flatrate list under the country key of a successful
\* availability response that follows a successful search, else nothing.
Offered(search, avail) ==
    IF /\ search.status = OK
       /\ avail.status = OK
       /\ avail.hasResults /\ avail.hasCountry /\ avail.hasFlatrate
    THEN avail.flatrate
    ELSE <<>>

\* ------------------------------------------------------------------ Movie
Movie(title, platforms) == [title |-> title, platforms |-> platforms]

available(movie) == Len(movie.platforms) > 0

\* Python's order of the provider names.
Rank(p) == IF p = "HBO" THEN 1 ELSE 2

RECURSIVE Insert(_, _)
Insert(x, s) ==
    IF s = <<>> THEN <<x>>
    ELSE IF Rank(x) < Rank(Head(s)) THEN <<x>> \o s
    ELSE <<Head(s)>> \o Insert(x, Tail(s))

RECURSIVE sorted(_)
sorted(s) == IF s = <<>> THEN <<>> ELSE Insert(Head(s), sorted(Tail(s)))

\* A line of text of the report.
Line(kind, text, n) == [kind |-> kind, text |-> text, n |-> n]

\* Movie.__str__, as the lines of the string.
MovieStr(movie) ==
    IF available(movie)
    THEN <<Line("Movie", movie.title, 0), Line("Blank", "", 0),
           Line("Platforms", "", 0), Line("Rule", "", 10)>>
            \o [i \in 1..Len(movie.platforms) |->
                    Line("Platform", sorted(movie.platforms)[i], 0)]
    ELSE <<Line("Movie", movie.title, 0), Line("NotAvailable", "", 0)>>

RECURSIVE Unique(_)
Unique(s) ==
    IF s = <<>> THEN <<>>
    ELSE LET front == Unique(SubSeq(s, 1, Len(s) - 1))
             x == s[Len(s)]
         IN IF \E i \in 1..Len(front) : front[i] = x THEN front ELSE Append(front, x)

\* ------------------------------------------------------------------- TMDB
\* A faulty variant: the provider names are returned as a set, each name once.
get_streaming_platforms_unique(response) ==
    IF response.status # OK THEN <<>>
    ELSE IF ~response.hasResults \/ ~response.hasCountry \/ ~response.hasFlatrate
         THEN <<>>
    ELSE Unique([i \in 1..Len(response.flatrate) |-> response.flatrate[i].provider_name])

get_streaming_platforms(response) ==
    IF response.status # OK THEN <<>>
    ELSE IF ~response.hasResults \/ ~response.hasCountry \/ ~response.hasFlatrate
         THEN <<>>          \* KeyError, caught
    ELSE [i \in 1..Len(response.flatrate) |-> response.flatrate[i].provider_name]

\* The value returned ("None", "int") or the exception raised.
get_movie_id(response) ==
    IF response.status # OK THEN [kind |-> "None", id |-> 0]
    ELSE IF ~response.hasResults THEN [kind |-> "KeyError", id |-> 0]
    ELSE IF response.results = <<>> THEN [kind |-> "IndexError", id |-> 0]
    ELSE IF ~Head(response.results).hasId THEN [kind |-> "KeyError", id |-> 0]
    ELSE [kind |-> "int", id |-> Head(response.results).id]

Raises(r) == r.kind \in {"KeyError", "IndexError"}

\* get_movie on the responses its requests receive; `requested` tells whether
\* the availability request was issued.
get_movie(title, search, avail) ==
    LET movie_id == get_movie_id(search) IN
    IF Raises(movie_id)
    THEN [raised |-> TRUE, requested |-> FALSE, movie |-> Movie(title, <<>>)]
    ELSE IF movie_id.kind = "None"
    THEN [raised |-> FALSE, requested |-> FALSE, movie |-> Movie(title, <<>>)]
    ELSE [raised |-> FALSE, requested |-> TRUE,
          movie |-> Movie(title, get_streaming_platforms(avail))]

\* ------------------------------------------------------------- Letterboxd
\* A faulty variant: the status is not tested and the body returned as it is.
get_page_ignores_status(response) == TRUE

\* get_page: None (FALSE) on a status other than 200, the text otherwise.
get_page(response) == response.status = OK

\* A faulty variant: the count is rounded up to whole pages.
NumOfPagesCeil(movies_count) ==
    (movies_count + PosterRows * PosterCols - 1) \div (PosterRows * PosterCols)

NumOfPages(movies_count) == movies_count \div (PosterRows * PosterCols) + 1

\* collections.Counter of a list: the distinct elements in first-encountered
\* order, each with the number of its occurrences.
RECURSIVE Counter(_)
Counter(list) ==
    IF list = <<>> THEN <<>>
    ELSE LET front == SubSeq(list, 1, Len(list) - 1)
             x == list[Len(list)]
             c == Counter(front)
         IN IF \E i \in 1..Len(c) : c[i].platform = x
            THEN [i \in 1..Len(c) |->
                    IF c[i].platform = x
                    THEN [platform |-> x, count |-> c[i].count + 1]
                    ELSE c[i]]
            ELSE Append(c, [platform |-> x, count |-> 1])

RECURSIVE Flatten(_)
Flatten(movies) ==
    IF movies = <<>> THEN <<>>
    ELSE Head(movies).platforms \o Flatten(Tail(movies))

RECURSIVE Entries(_)
Entries(movies) ==
    IF movies = <<>> THEN <<>>
    ELSE MovieStr(Head(movies)) \o <<Line("Separator", "*", SeparatorWidth)>>
            \o Entries(Tail(movies))

\* The string built by the summary property, as its lines.
Summary(movies) ==
    LET counter == Counter(Flatten(movies)) IN
    Entries(movies)
        \o <<Line("SummaryHeader", "", 0), Line("Rule", "", 10)>>
        \o [i \in 1..Len(counter) |->
                Line("Count", counter[i].platform, counter[i].count)]

\* The truth value of a list or of a string (getattr(...) in the walrus test).
Truthy(s) == Len(s) > 0

\* ------------------------------------------------------------------ state
VARIABLES
    has_watchlist,  \* the instance has the attribute _watchlist
    _watchlist,     \* self._watchlist
    has_summary,    \* the instance has the attribute _summary
    _summary,       \* self._summary, as its lines
    pc,             \* "idle": the client is between two accesses;
                    \* "scan": the while loop of watchlist is running
    caller,         \* the property the client accessed: "watchlist", "summary"
    current_page,   \* locals of watchlist (0: not assigned)
    movies_count,
    num_of_pages,
    soup,           \* the posters of the parsed page not iterated yet
    accesses,       \* accesses made by the client
    ret,            \* what the last access gave the client
    sent,           \* HTTP requests issued by the latest step
    pageFetches,    \* listing pages requested by the latest computation
    pageStatuses,   \* the status of the response to each of them
    tmdbCalled,     \* the latest computation issued a provider request
    scannedPages,   \* pages whose posters the latest computation iterated
    posters,        \* alt texts found on its pages 1..num_of_pages
    offered,        \* what the provider offered for each resolved poster
    lastLookup,     \* the latest call of get_movie
    scanState,      \* the latest computation: "none", "running", "failed",
                    \* "complete", "aborted"
    computed        \* an access of watchlist has returned a value

vars == <<has_watchlist, _watchlist, has_summary, _summary, pc, caller,
          current_page, movies_count, num_of_pages, soup, accesses, ret,
          sent, pageFetches, pageStatuses, tmdbCalled, scannedPages,
          posters, offered, lastLookup, scanState, computed>>

Props == {"watchlist", "summary"}

Outcome(prop, kind, exc, movies, lines) ==
    [prop |-> prop, kind |-> kind, exc |-> exc, movies |-> movies, lines |-> lines]

\* The client waits for the value of the property it accessed.
Pending == Outcome("none", "none", "", <<>>, <<>>)

NoLookup ==
    [title |-> "", search |-> [status |-> 0, hasResults |-> FALSE, results |-> <<>>],
     avail |-> NoRequest, requested |-> FALSE, raised |-> FALSE,
     movie |-> Movie("", <<>>)]

Init ==
    /\ has_watchlist = FALSE
    /\ _watchlist = <<>>
    /\ has_summary = FALSE
    /\ _summary = <<>>
    /\ pc = "idle"
    /\ caller = "none"
    /\ current_page = 0
    /\ movies_count = 0
    /\ num_of_pages = 0
    /\ soup = <<>>
    /\ accesses = 0
    /\ ret = Pending
    /\ sent = 0
    /\ pageFetches = <<>>
    /\ pageStatuses = <<>>
    /\ tmdbCalled = FALSE
    /\ scannedPages = <<>>
    /\ posters = <<>>
    /\ offered = <<>>
    /\ lastLookup = NoLookup
    /\ scanState = "none"
    /\ computed = FALSE

\* The watchlist getter returns `value` to the property `prop` the client
\* accessed; summary builds its string from it and returns that.
Returns(prop, value) ==
    /\ pc' = "idle"
    /\ caller' = "none"
    /\ computed' = TRUE
    /\ IF prop = "watchlist"
       THEN /\ ret' = Outcome("watchlist", "return", "", value, <<>>)
            /\ UNCHANGED <<has_summary, _summary>>
       ELSE /\ has_summary' = TRUE
            /\ _summary' = Summary(value)
            /\ ret' = Outcome("summary", "return", "", <<>>, Summary(value))

\* An exception leaves the watchlist getter (and summary, which does not
\* catch it) and reaches the client.
Raise(prop, exc) ==
    /\ pc' = "idle"
    /\ caller' = "none"
    /\ ret' = Outcome(prop, "raise", exc, <<>>, <<>>)
    /\ UNCHANGED <<has_summary, _summary, computed>>

scanVars == <<current_page, movies_count, num_of_pages, soup,
              pageFetches, pageStatuses, tmdbCalled, scannedPages, posters,
              offered, lastLookup, scanState>>

\* summary, its cached string being truthy.
SummaryCached ==
    /\ pc = "idle"
    /\ accesses < MaxAccess
    /\ Truthy(_summary)
    /\ accesses' = accesses + 1
    /\ ret' = Outcome("summary", "return", "", <<>>, _summary)
    /\ sent' = 0
    /\ UNCHANGED <<has_watchlist, _watchlist, has_summary, _summary, pc, caller,
                   computed>>
    /\ UNCHANGED scanVars

\* watchlist (accessed by the client or by summary), its cached list being
\* truthy.
WatchlistCached(prop) ==
    /\ pc = "idle"
    /\ accesses < MaxAccess
    /\ prop = "summary" => ~Truthy(_summary)
    /\ Truthy(_watchlist)
    /\ accesses' = accesses + 1
    /\ Returns(prop, _watchlist)
    /\ sent' = 0
    /\ UNCHANGED <<has_watchlist, _watchlist>>
    /\ UNCHANGED scanVars

\* watchlist, no truthy list being cached: the list is reset, page 1 is
\* fetched and its heading parsed.
WatchlistFetch(prop, Pages) ==
    /\ pc = "idle"
    /\ accesses < MaxAccess
    /\ prop = "summary" => ~Truthy(_summary)
    /\ ~Truthy(_watchlist)
    /\ accesses' = accesses + 1
    /\ has_watchlist' = TRUE
    /\ _watchlist' = <<>>
    /\ current_page' = 1
    /\ sent' = 1
    /\ pageFetches' = <<1>>
    /\ tmdbCalled' = FALSE
    /\ scannedPages' = <<>>
    /\ offered' = <<>>
    /\ lastLookup' = NoLookup
    /\ \E response \in Pages :
        /\ pageStatuses' = <<response.status>>
        /\ IF ~get_page(response)
           THEN /\ movies_count' = 0
                /\ num_of_pages' = 0
                /\ soup' = <<>>
                /\ posters' = <<>>
                /\ scanState' = "failed"
                /\ Returns(prop, <<>>)
           ELSE /\ movies_count' = response.count
                /\ num_of_pages' = NumOfPages(response.count)
                /\ posters' = response.posters
                /\ IF 1 <= NumOfPages(response.count)
                   THEN /\ soup' = response.posters
                        /\ scanState' = "running"
                        /\ pc' = "scan"
                        /\ caller' = prop
                        /\ ret' = Pending
                        /\ UNCHANGED <<has_summary, _summary, computed>>
                   ELSE /\ soup' = <<>>
                        /\ scanState' = "complete"
                        /\ Returns(prop, <<>>)

\* One iteration of the for loop: the poster's title is resolved and the
\* Movie appended.
ProcessPoster ==
    /\ pc = "scan"
    /\ soup # <<>>
    /\ LET title == Head(soup) IN
       \E search \in SearchResponses :
       \E avail \in (IF get_movie_id(search).kind = "int"
                     THEN AvailResponses ELSE {NoRequest}) :
         LET r == get_movie(title, search, avail)
             n == IF r.requested THEN 2 ELSE 1
         IN /\ sent' = n
            /\ tmdbCalled' = TRUE
            /\ lastLookup' = [title |-> title, search |-> search, avail |-> avail,
                              requested |-> r.requested, raised |-> r.raised,
                              movie |-> r.movie]
            /\ IF r.raised
               THEN /\ Raise(caller, get_movie_id(search).kind)
                    /\ scanState' = "aborted"
                    /\ soup' = <<>>
                    /\ UNCHANGED <<_watchlist, offered>>
               ELSE /\ _watchlist' = Append(_watchlist, r.movie)
                    /\ offered' = Append(offered, Offered(search, avail))
                    /\ soup' = Tail(soup)
                    /\ UNCHANGED <<pc, caller, ret, has_summary, _summary,
                                   computed, scanState>>
    /\ UNCHANGED <<has_watchlist, current_page, movies_count, num_of_pages,
                   accesses, pageFetches, pageStatuses, scannedPages, posters>>

\* The end of one iteration of the while loop: the next page is fetched and
\* parsed, and the loop condition tested.
NextPage(Pages) ==
    /\ pc = "scan"
    /\ soup = <<>>
    /\ current_page' = current_page + 1
    /\ scannedPages' = Append(scannedPages, current_page)
    /\ sent' = 1
    /\ pageFetches' = Append(pageFetches, current_page + 1)
    /\ \E response \in Pages :
        /\ pageStatuses' = Append(pageStatuses, response.status)
        /\ IF ~get_page(response)
           THEN /\ Raise(caller, "TypeError")     \* BeautifulSoup(None, ...)
                /\ scanState' = "aborted"
                /\ UNCHANGED <<soup, posters>>
           ELSE IF current_page + 1 <= num_of_pages
           THEN /\ soup' = response.posters
                /\ posters' = posters \o response.posters
                /\ UNCHANGED <<pc, caller, ret, has_summary, _summary, computed,
                               scanState>>
           ELSE /\ soup' = <<>>
                /\ scanState' = "complete"
                /\ Returns(caller, _watchlist)
                /\ UNCHANGED posters
    /\ UNCHANGED <<has_watchlist, _watchlist, movies_count, num_of_pages,
                   accesses, tmdbCalled, offered, lastLookup>>

Next ==
    \/ SummaryCached
    \/ \E prop \in Props : WatchlistCached(prop)
    \/ \E prop \in Props : WatchlistFetch(prop, PageResponses(EntryCounts, MaxMovies))
    \/ ProcessPoster
    \/ NextPage(PageResponses({0}, MaxMovies - Len(posters)))

Spec == Init /\ [][Next]_vars

\* The page-count specification: a listing without posters whose heading
\* gives any entry count up to MaxCount, every page fetched with status 200.
EmptyListing(counts) == {PageResponse(OK, c, <<>>) : c \in counts}

NextPages ==
    \/ \E prop \in Props : WatchlistFetch(prop, EmptyListing(0..MaxCount))
    \/ NextPage(EmptyListing({0}))
    \/ SummaryCached

SpecPages == Init /\ [][NextPages]_vars

\* ================================================================ claims

Titles_(movies) == [i \in 1..Len(movies) |-> movies[i].title]

Names(flatrate) == [i \in 1..Len(flatrate) |-> flatrate[i].provider_name]

\* C1 (as stated): once an access of watchlist has returned a value, an empty
\* one included, no later access issues an HTTP request.
C1_ComputedOnce == [][computed => sent' = 0]_vars

\* C2 (as stated): a page-1 fetch with a status other than 200 gives the empty
\* watchlist and the empty string as summary, with no other page fetch and no
\* provider request.
C2_EmptySummary ==
    (pageStatuses # <<>> /\ pageStatuses[1] # OK) =>
        /\ pc = "idle"
        /\ ret.kind = "return"
        /\ pageFetches = <<1>>
        /\ ~tmdbCalled
        /\ ret.prop = "watchlist" => ret.movies = <<>>
        /\ ret.prop = "summary" => ret.lines = <<>>

\* C2 (amended): a page-1 fetch with a status other than 200 gives the empty
\* watchlist and, as summary, the two lines of the "Platforms summary" header
\* alone (no Movie entry, no platform count), with no other page fetch and no
\* provider request.
C2_HeaderOnlySummary ==
    (pageStatuses # <<>> /\ pageStatuses[1] # OK) =>
        /\ pc = "idle"
        /\ ret.kind = "return"
        /\ pageFetches = <<1>>
        /\ ~tmdbCalled
        /\ _watchlist = <<>>
        /\ ret.prop = "watchlist" => ret.movies = <<>>
        /\ ret.prop = "summary" =>
             ret.lines = <<Line("SummaryHeader", "", 0), Line("Rule", "", 10)>>

C2_Witness ==
    /\ pageStatuses # <<>> /\ pageStatuses[1] # OK
    /\ ret.prop = "summary" /\ ret.kind = "return"

SearchFails(search) ==
    \/ search.status # OK
    \/ ~search.hasResults
    \/ search.results = <<>>
    \/ ~search.results[1].hasId

\* C3 (as stated): a search that ends in a status other than 200, in an empty
\* or absent result list or in a first result without id makes get_movie
\* return Movie(title, []) without raising and without an availability
\* request.
C3_SearchFailureIsAbsent ==
    (lastLookup.title # "" /\ SearchFails(lastLookup.search)) =>
        /\ ~lastLookup.raised
        /\ ~lastLookup.requested
        /\ lastLookup.movie = Movie(lastLookup.title, <<>>)

\* C4: get_streaming_platforms returns the provider names of the flatrate
\* list under the country key, in its order, and the empty list when the
\* status is not 200 or one of the keys is absent; it never raises.
C4_FlatrateNames ==
    lastLookup.requested =>
        LET a == lastLookup.avail
            p == lastLookup.movie.platforms
        IN /\ ~lastLookup.raised
           /\ IF a.status = OK /\ a.hasResults /\ a.hasCountry /\ a.hasFlatrate
              THEN /\ Len(p) = Len(a.flatrate)
                   /\ \A i \in 1..Len(p) : p[i] = a.flatrate[i].provider_name
              ELSE p = <<>>

C4_Witness ==
    /\ lastLookup.requested
    /\ Len(lastLookup.avail.flatrate) = 2
    /\ lastLookup.movie.platforms = <<"Netflix", "Netflix">>

\* C5 (as stated): a status other than 200 for a listing page n > 1 does not
\* make the scan raise: the access still returns a result.
C5_LaterPageFailureNotFatal ==
    (/\ pc = "idle"
     /\ Len(pageFetches) > 1
     /\ pageFetches[Len(pageFetches)] <= num_of_pages
     /\ pageStatuses[Len(pageStatuses)] # OK) =>
        ret.kind = "return"

\* Every listing page 1..num_of_pages of the latest computation was fetched
\* with status 200.
PagesFetched ==
    /\ num_of_pages >= 1
    /\ Len(pageFetches) >= num_of_pages
    /\ \A i \in 1..num_of_pages : pageStatuses[i] = OK

\* C6 (as stated): when every listing page 1..page_count was fetched
\* successfully, the sequence watchlist returns has one Movie per poster
\* found on those pages, in page order and in-page order, each with the alt
\* text as title and the platforms of its lookup.
C6_OneMoviePerPoster ==
    (pc = "idle" /\ ret.prop = "watchlist" /\ ret.kind = "return" /\ PagesFetched) =>
        /\ Titles_(ret.movies) = posters
        /\ Len(offered) = Len(posters)
        /\ \A i \in 1..Len(posters) : ret.movies[i].platforms = Names(offered[i])

\* C7: num_of_pages = floor(movies_count / 28) + 1, so 0 gives 1 page, 28
\* and 29 give 2 and 56 gives 3, and a scan that completes iterates the
\* posters of exactly the pages 1..num_of_pages.
C7_PageCount ==
    /\ num_of_pages > 0 =>
        /\ (num_of_pages - 1) * 28 <= movies_count
        /\ movies_count < num_of_pages * 28
        /\ movies_count = 0 => num_of_pages = 1
        /\ movies_count = 28 => num_of_pages = 2
        /\ movies_count = 29 => num_of_pages = 2
        /\ movies_count = 56 => num_of_pages = 3
    /\ scanState = "complete" =>
        /\ num_of_pages > 0
        /\ scannedPages = [i \in 1..num_of_pages |-> i]
    /\ scanState = "running" => Len(scannedPages) < num_of_pages

C7_Witness ==
    /\ scanState = "complete"
    /\ movies_count = 56
    /\ scannedPages = <<1, 2, 3>>

Carriers(movies, p) ==
    {i \in 1..Len(movies) : \E j \in 1..Len(movies[i].platforms) :
        movies[i].platforms[j] = p}

CountLines(lines, p) ==
    {i \in 1..Len(lines) : lines[i].kind = "Count" /\ lines[i].text = p}

\* C8 (as stated): the count printed for a platform is the number of Movies
\* of the watchlist that carry it, and every platform carried by some Movie
\* is listed exactly once.
C8_CountsMovies ==
    (pc = "idle" /\ ret.prop = "summary" /\ ret.kind = "return") =>
        \A p \in {"HBO", "Netflix"} :
            LET on == Carriers(_watchlist, p)
                at == CountLines(ret.lines, p)
            IN IF on = {}
               THEN at = {}
               ELSE /\ Cardinality(at) = 1
                    /\ \A i \in at : ret.lines[i].n = Cardinality(on)

\* C9 (as stated): a computation whose page-1 fetch succeeds fetches the
\* pages 1, 2, ..., num_of_pages, each once, in this order, and no other.
C9_FetchesUpToLastPage ==
    (pageStatuses # <<>> /\ pageStatuses[1] = OK) =>
        /\ \A i \in 1..Len(pageFetches) : pageFetches[i] = i
        /\ Len(pageFetches) <= num_of_pages
        /\ scanState = "complete" => Len(pageFetches) = num_of_pages

\* C10 (as stated): a value watchlist returns is empty or holds a Movie for
\* every poster of all the pages 1..num_of_pages.
C10_NeverPartial ==
    (pc = "idle" /\ ret.prop = "watchlist" /\ ret.kind = "return") =>
        \/ ret.movies = <<>>
        \/ /\ Len(scannedPages) = num_of_pages
           /\ Titles_(ret.movies) = posters

====
